---- MODULE Spec2Model ----
(***************************************************************************)
(* A model of youtube-summarizer: the caption-to-text filters              *)
(* (transcript_fetcher.clean_srt_to_text, yt_to_wisdom_md.srt_to_text),    *)
(* the metadata normalisers (normalize_date, slugify, yaml_str) and the    *)
(* two command-line runs (transcript_fetcher.download_and_process and      *)
(* yt_to_wisdom_md.main).                                                  *)
(*                                                                         *)
(* Text is a sequence of one-character strings.  An optional value is a   *)
(* record: None, or Str(s).                                                *)
(***************************************************************************)
EXTENDS Integers, Sequences, FiniteSets, TLC

VARIABLES
    \* ---- the two runs (specification Spec)
    prog,            \* which script runs: "transcript_fetcher" | "yt_to_wisdom_md"
    pc,              \* position of the run in its function
    has_url,         \* whether sys.argv carries the URL argument
    disk,            \* caption files on disk: set of [name, mtime, content]
    meta,            \* the provider's metadata record (yt-dlp -J / extract_info)
    fields,          \* main's resolved locals (title, tags, video_id, ...)
    srt_files,       \* the list glob() returned
    transcript,      \* [path, text, quality] derived from the selected caption file
    fabric,          \* the summarizer invocation: [calls, outcome, input, body]
    md_file,         \* the Markdown note written by main: None or [path, lines]
    txt_file,        \* the transcript written by download_and_process
    error,           \* the exception that ended the run, "" if none
    \* ---- the pure functions (specifications SpecSrt, SpecDate, SpecSlug)
    stage,           \* which functions have been applied to the input
    srt,             \* content of a caption file
    flattened,       \* clean_srt_to_text(srt)
    line_preserved,  \* srt_to_text(srt)
    reflattened,     \* clean_srt_to_text of a caption file holding `flattened`
    yt_date,         \* normalize_date's argument
    iso_date,        \* normalize_date's result
    text,            \* slugify's argument
    slug             \* slugify's result

runVars == <<prog, pc, has_url, disk, meta, fields, srt_files, transcript,
             fabric, md_file, txt_file, error>>
srtVars == <<srt, flattened, line_preserved, reflattened>>
dateVars == <<yt_date, iso_date>>
slugVars == <<text, slug>>
vars == <<runVars, stage, srtVars, dateVars, slugVars>>

(***************************************************************************)
(* Bounds of the model.                                                    *)
(***************************************************************************)
MaxChunks == 3      \* a caption file is at most this many chunks
MaxSlugLen == 4     \* slugify's argument has at most this many characters
MaxMonthField == 14 \* the two month digits range over 00..MaxMonthField
MaxDayField == 33   \* the two day digits range over 00..MaxDayField
MaxMtime == 2       \* modification times of caption files: 1..MaxMtime
MaxTags == 2        \* length of the metadata's tag list

(***************************************************************************)
(* Optional values and text.                                               *)
(***************************************************************************)
None == [tag |-> "None"]
Str(s) == [tag |-> "str", val |-> s]

Digits == {"0", "1", "2", "3", "4", "5", "6", "7", "8", "9"}
LowerCase == <<"a", "b", "c", "d", "e", "f", "g", "h", "i", "j", "k", "l", "m",
               "n", "o", "p", "q", "r", "s", "t", "u", "v", "w", "x", "y", "z">>
UpperCase == <<"A", "B", "C", "D", "E", "F", "G", "H", "I", "J", "K", "L", "M",
               "N", "O", "P", "Q", "R", "S", "T", "U", "V", "W", "X", "Y", "Z">>
Range(f) == {f[i] : i \in DOMAIN f}
\* str.isspace / the regex class \s
IsSpace(c) == c \in {" ", "\t", "\n", "\r", "\f"}
\* the regex class \d
IsDigit(c) == c \in Digits
\* the regex class \w
IsWord(c) == c \in Range(LowerCase) \cup Range(UpperCase) \cup Digits \cup {"_"}

RECURSIVE Concat(_)
\* the concatenation of a sequence of texts
Concat(ss) == IF ss = <<>> THEN <<>> ELSE Head(ss) \o Concat(Tail(ss))

RECURSIVE Join(_, _)
\* sep.join(ss)
Join(ss, sep) ==
    IF ss = <<>> THEN <<>>
    ELSE IF Len(ss) = 1 THEN ss[1]
    ELSE ss[1] \o sep \o Join(Tail(ss), sep)

RECURSIVE LStrip(_)
LStrip(s) == IF s # <<>> /\ IsSpace(Head(s)) THEN LStrip(Tail(s)) ELSE s

RECURSIVE RStrip(_)
RStrip(s) ==
    IF s # <<>> /\ IsSpace(s[Len(s)]) THEN RStrip(SubSeq(s, 1, Len(s) - 1)) ELSE s

\* str.strip()
Strip(s) == RStrip(LStrip(s))

RECURSIVE CollapseWs(_)
\* re.sub(r"\s+", " ", s)
CollapseWs(s) ==
    IF s = <<>> THEN <<>>
    ELSE IF IsSpace(Head(s)) THEN <<" ">> \o CollapseWs(LStrip(s))
    ELSE <<Head(s)>> \o CollapseWs(Tail(s))

\* re.match(r"^\d+$", line) on a stripped line
CueNumberMatch(line) == line # <<>> /\ \A i \in 1..Len(line) : IsDigit(line[i])

\* the pattern \d{2}:\d{2}:\d{2},\d{3} matched at position i of line
TimestampAt(line, i) ==
    /\ i + 11 <= Len(line)
    /\ \A k \in {0, 1, 3, 4, 6, 7, 9, 10, 11} : IsDigit(line[i + k])
    /\ line[i + 2] = ":" /\ line[i + 5] = ":" /\ line[i + 8] = ","

\* timestamp_pattern.search(line): the pattern anywhere in the line
TimestampSearch(line) == \E i \in 1..Len(line) : TimestampAt(line, i)

\* re.match(r"^\d{2}:\d{2}:\d{2},\d{3}", line): the pattern at the start
TimestampMatch(line) == TimestampAt(line, 1)

\* index of the first ">" of s at or after i, 0 if none
FirstGt(s, i) ==
    IF \E j \in i..Len(s) : s[j] = ">"
    THEN CHOOSE j \in i..Len(s) : s[j] = ">" /\ \A k \in i..(j - 1) : s[k] # ">"
    ELSE 0

RECURSIVE HtmlTagSubFrom(_, _)
HtmlTagSubFrom(s, i) ==
    IF i > Len(s) THEN <<>>
    ELSE LET j == FirstGt(s, i + 1)
         IN  IF s[i] = "<" /\ j >= i + 2
             THEN HtmlTagSubFrom(s, j + 1)
             ELSE <<s[i]>> \o HtmlTagSubFrom(s, i + 1)

\* html_tag_pattern.sub("", line) with html_tag_pattern = <[^>]+>
HtmlTagSub(line) == HtmlTagSubFrom(line, 1)

(***************************************************************************)
(* Line splitting.                                                         *)
(***************************************************************************)
\* the positions of s that hold one of the characters of `breaks`
Positions(s, breaks) == {i \in 1..Len(s) : s[i] \in breaks}

\* the least position of B at or after i, 0 if none
NextPosition(B, i) ==
    IF \E b \in B : b >= i
    THEN CHOOSE b \in B : b >= i /\ \A c \in B : c >= i => b <= c
    ELSE 0

\* the position after the line boundary at j: "\r\n" is one boundary
AfterBoundary(s, j) == IF s[j] = "\r" /\ j < Len(s) /\ s[j + 1] = "\n" THEN j + 2 ELSE j + 1

RECURSIVE FileLinesFrom(_, _, _)
FileLinesFrom(s, B, i) ==
    IF i > Len(s) THEN <<>>
    ELSE LET j == NextPosition(B, i)
         IN  IF j = 0 THEN <<SubSeq(s, i, Len(s))>>
             ELSE <<SubSeq(s, i, j - 1) \o <<"\n">> >> \o FileLinesFrom(s, B, AfterBoundary(s, j))

\* `for line in f` on a text-mode file: universal newlines ("\n", "\r", "\r\n"
\* end a line and read as "\n"), the terminator kept
FileLines(content) == FileLinesFrom(content, Positions(content, {"\n", "\r"}), 1)

RECURSIVE SplitLinesFrom(_, _, _)
SplitLinesFrom(s, B, i) ==
    IF i > Len(s) THEN <<>>
    ELSE LET j == NextPosition(B, i)
         IN  IF j = 0 THEN <<SubSeq(s, i, Len(s))>>
             ELSE <<SubSeq(s, i, j - 1)>> \o SplitLinesFrom(s, B, AfterBoundary(s, j))

\* str.splitlines(): the line boundaries dropped, no empty last line
SplitLines(content) == SplitLinesFrom(content, Positions(content, {"\n", "\r", "\f"}), 1)

(***************************************************************************)
(* transcript_fetcher.clean_srt_to_text                                    *)
(***************************************************************************)
RECURSIVE CleanLines(_)
\* the loop over the file's lines: text_lines
CleanLines(lines) ==
    IF lines = <<>> THEN <<>>
    ELSE LET line == Strip(Head(lines))
         IN  IF line = <<>> THEN CleanLines(Tail(lines))
             ELSE IF CueNumberMatch(line) THEN CleanLines(Tail(lines))
             ELSE IF TimestampSearch(line) THEN CleanLines(Tail(lines))
             ELSE <<HtmlTagSub(line)>> \o CleanLines(Tail(lines))

NormalizeWhitespaceNoStrip(cleaned) == CollapseWs(cleaned)

\* re.sub(r"\s+", " ", cleaned).strip()
NormalizeWhitespace(cleaned) == Strip(CollapseWs(cleaned))

clean_srt_to_text(content) ==
    NormalizeWhitespace(Join(CleanLines(FileLines(content)), <<" ">>))

(***************************************************************************)
(* yt_to_wisdom_md.srt_to_text                                             *)
(***************************************************************************)
RECURSIVE SrtLines(_)
\* the loop over text.splitlines(): lines
SrtLines(lines) ==
    IF lines = <<>> THEN <<>>
    ELSE LET line == Head(lines)
         IN  IF CueNumberMatch(Strip(line)) THEN SrtLines(Tail(lines))
             ELSE IF TimestampMatch(Strip(line)) THEN SrtLines(Tail(lines))
             ELSE IF Strip(line) = <<>> THEN SrtLines(Tail(lines))
             ELSE <<Strip(line)>> \o SrtLines(Tail(lines))

srt_to_text(content) == Join(SrtLines(SplitLines(content)), <<"\n">>)

(***************************************************************************)
(* yt_to_wisdom_md.slugify                                                 *)
(***************************************************************************)
\* str.lower() of one character
LowerChar(c) ==
    IF \E i \in 1..Len(UpperCase) : UpperCase[i] = c
    THEN LowerCase[CHOOSE i \in 1..Len(UpperCase) : UpperCase[i] = c]
    ELSE c

\* str.lower()
Lower(s) == [i \in 1..Len(s) |-> LowerChar(s[i])]

\* re.sub(r"[^\w\s-]", "", text)
RemoveNonWord(s) == SelectSeq(s, LAMBDA c : IsWord(c) \/ IsSpace(c) \/ c = "-")

IsSeparator(c) == IsSpace(c) \/ c = "_" \/ c = "-"

RECURSIVE SkipSeparators(_)
SkipSeparators(s) ==
    IF s # <<>> /\ IsSeparator(Head(s)) THEN SkipSeparators(Tail(s)) ELSE s

RECURSIVE CollapseSeparators(_)
\* re.sub(r"[\s_-]+", "-", text)
CollapseSeparators(s) ==
    IF s = <<>> THEN <<>>
    ELSE IF IsSeparator(Head(s)) THEN <<"-">> \o CollapseSeparators(SkipSeparators(s))
    ELSE <<Head(s)>> \o CollapseSeparators(Tail(s))

RECURSIVE LStripHyphens(_)
LStripHyphens(s) == IF s # <<>> /\ Head(s) = "-" THEN LStripHyphens(Tail(s)) ELSE s

RECURSIVE RStripHyphens(_)
RStripHyphens(s) ==
    IF s # <<>> /\ s[Len(s)] = "-" THEN RStripHyphens(SubSeq(s, 1, Len(s) - 1)) ELSE s

StripHyphensLeadingOnly(s) == LStripHyphens(s)

\* re.sub(r"^-+|-+$", "", text)
StripHyphens(s) == RStripHyphens(LStripHyphens(s))

Video == <<"v", "i", "d", "e", "o">>

slugify(t) ==
    LET cleaned == StripHyphens(CollapseSeparators(RemoveNonWord(Lower(Strip(t)))))
    IN  IF cleaned = <<>> THEN Video ELSE cleaned

(***************************************************************************)
(* yt_to_wisdom_md.normalize_date                                          *)
(***************************************************************************)
DigitSeq == <<"0", "1", "2", "3", "4", "5", "6", "7", "8", "9">>
\* int() of one decimal digit
DigitVal(c) == (CHOOSE i \in 1..Len(DigitSeq) : DigitSeq[i] = c) - 1

RECURSIVE IntOf(_)
\* int() of a text of decimal digits
IntOf(s) == IF s = <<>> THEN 0 ELSE IntOf(SubSeq(s, 1, Len(s) - 1)) * 10 + DigitVal(s[Len(s)])

\* format(n, "02d") for 0 <= n < 100
Pad2(n) == <<DigitSeq[(n \div 10) + 1], DigitSeq[(n % 10) + 1]>>
\* format(n, "04d") for 0 <= n < 10000
Pad4(n) == Pad2(n \div 100) \o Pad2(n % 100)

IsLeap(y) == y % 4 = 0 /\ (y % 100 # 0 \/ y % 400 = 0)
DaysInMonth(y, m) ==
    IF m = 2 THEN (IF IsLeap(y) THEN 29 ELSE 28)
    ELSE IF m \in {4, 6, 9, 11} THEN 30 ELSE 31

\* datetime.date(y, m, d) accepts the triple (MINYEAR is 1)
DateAccepts(y, m, d) ==
    /\ y >= 1 /\ y <= 9999
    /\ m >= 1 /\ m <= 12
    /\ d >= 1 /\ d <= DaysInMonth(y, m)

\* strptime's pattern for %m, 1[0-2]|0[1-9]|[1-9], at position i of s: the lengths
\* of the alternatives that match, in the order the regex tries them
MonthAlternatives(s, i) ==
    (IF i + 1 <= Len(s) /\ s[i] = "1" /\ s[i + 1] \in {"0", "1", "2"} THEN <<2>> ELSE <<>>)
    \o (IF i + 1 <= Len(s) /\ s[i] = "0" /\ s[i + 1] \in Digits \ {"0"} THEN <<2>> ELSE <<>>)
    \o (IF i <= Len(s) /\ s[i] \in Digits \ {"0"} THEN <<1>> ELSE <<>>)

\* strptime's pattern for %d, 3[0-1]|[1-2]\d|0[1-9]|[1-9]| [1-9], at position i
DayAlternatives(s, i) ==
    (IF i + 1 <= Len(s) /\ s[i] = "3" /\ s[i + 1] \in {"0", "1"} THEN <<2>> ELSE <<>>)
    \o (IF i + 1 <= Len(s) /\ s[i] \in {"1", "2"} /\ s[i + 1] \in Digits THEN <<2>> ELSE <<>>)
    \o (IF i + 1 <= Len(s) /\ s[i] = "0" /\ s[i + 1] \in Digits \ {"0"} THEN <<2>> ELSE <<>>)
    \o (IF i <= Len(s) /\ s[i] \in Digits \ {"0"} THEN <<1>> ELSE <<>>)
    \o (IF i + 1 <= Len(s) /\ s[i] = " " /\ s[i + 1] \in Digits \ {"0"} THEN <<2>> ELSE <<>>)

\* the first way the format's regex (\d\d\d\d)(%m)(%d) matches a prefix of s:
\* <<length of the month, length of the day>>, or <<>> when it does not match
FormatMatch(s) ==
    IF ~(Len(s) >= 4 /\ \A i \in 1..4 : IsDigit(s[i])) THEN <<>>
    ELSE LET ms == MonthAlternatives(s, 5)
             ok == {k \in 1..Len(ms) : DayAlternatives(s, 5 + ms[k]) # <<>>}
         IN  IF ok = {} THEN <<>>
             ELSE LET k == CHOOSE k \in ok : \A j \in ok : k <= j
                  IN  <<ms[k], Head(DayAlternatives(s, 5 + ms[k]))>>

\* the fields of a matched text
ParsedDate(s, lens) ==
    [year |-> IntOf(SubSeq(s, 1, 4)),
     month |-> IntOf(SubSeq(s, 5, 4 + lens[1])),
     day |-> IntOf(Strip(SubSeq(s, 5 + lens[1], 4 + lens[1] + lens[2])))]

strptime_ignoring_rest(s) ==
    LET lens == FormatMatch(s)
    IN  IF lens = <<>> THEN [raised |-> TRUE]
        ELSE LET p == ParsedDate(s, lens)
             IN  IF DateAccepts(p.year, p.month, p.day)
                 THEN [raised |-> FALSE, date |-> p]
                 ELSE [raised |-> TRUE]

\* datetime.strptime(s, "%Y%m%d"): the date, or ValueError raised
strptime(s) ==
    LET lens == FormatMatch(s)
    IN  IF lens = <<>> THEN [raised |-> TRUE]
        ELSE IF 4 + lens[1] + lens[2] # Len(s) THEN [raised |-> TRUE]
        ELSE LET p == ParsedDate(s, lens)
             IN  IF DateAccepts(p.year, p.month, p.day)
                 THEN [raised |-> FALSE, date |-> p]
                 ELSE [raised |-> TRUE]

\* date.isoformat()
isoformat(d) == Pad4(d.year) \o <<"-">> \o Pad2(d.month) \o <<"-">> \o Pad2(d.day)

\* `not x` for an optional text
Falsy(x) == x = None \/ x.val = <<>>

\* re.fullmatch(r"\d{8}", s)
EightDigits(s) == Len(s) = 8 /\ \A i \in 1..8 : IsDigit(s[i])

normalize_date(d) ==
    IF Falsy(d) THEN None
    ELSE IF EightDigits(d.val)
         THEN LET dt == strptime(d.val)
              IN  IF dt.raised THEN None ELSE Str(isoformat(dt.date))
    ELSE d

(***************************************************************************)
(* yt_to_wisdom_md.yaml_str                                                *)
(***************************************************************************)
\* json.dumps' escape of one character (ensure_ascii=False)
JsonEscape(c) ==
    IF c = "\"" THEN <<"\\", "\"">>
    ELSE IF c = "\\" THEN <<"\\", "\\">>
    ELSE IF c = "\n" THEN <<"\\", "n">>
    ELSE IF c = "\r" THEN <<"\\", "r">>
    ELSE IF c = "\t" THEN <<"\\", "t">>
    ELSE IF c = "\f" THEN <<"\\", "f">>
    ELSE <<c>>

\* json.dumps(value, ensure_ascii=False) of a text
yaml_str(s) == <<"\"">> \o Concat([i \in 1..Len(s) |-> JsonEscape(s[i])]) \o <<"\"">>

(***************************************************************************)
(* Inputs of the pure functions.                                           *)
(***************************************************************************)
Timestamp == <<"0", "0", ":", "0", "0", ":", "0", "1", ",", "0", "0", "0">>

\* a caption file is a concatenation of at most MaxChunks of these
Chunks == {<<"a">>, <<"1">>, <<" ">>, <<"\n">>, <<"<">>, <<">">>, <<"<", "b", ">">>, Timestamp}
CaptionInputs == {Concat(cs) : cs \in UNION {[1..n -> Chunks] : n \in 0..MaxChunks}}

SlugAlphabet == {"A", "b", "1", "_", "-", " ", "!"}
SlugInputs == UNION {[1..n -> SlugAlphabet] : n \in 0..MaxSlugLen}

Years == {<<"0", "0", "0", "0">>, <<"0", "0", "0", "1">>, <<"1", "9", "0", "0">>,
          <<"2", "0", "0", "0">>, <<"2", "0", "2", "3">>, <<"2", "0", "2", "4">>,
          <<"9", "9", "9", "9">>}
\* texts that are not eight digits
OtherDates == {<<"2", "0", "2", "4", "0", "1", "1">>,
               <<"2", "0", "2", "4", "0", "1", "1", "5", "0">>,
               <<"2", "0", "2", "4", "-", "0", "1", "-", "1", "5">>,
               <<"2", "0", "2", "4", "0", "1", "1", " ">>,
               <<"2", "0", "2", "4", "0", "1", "1", "\n">>,
               <<"c", "i", "r", "c", "a", " ", "1", "9", "9", "9">>}
DateInputs ==
    {None, Str(<<>>)}
    \cup {Str(y \o Pad2(m) \o Pad2(d)) : y \in Years, m \in 0..MaxMonthField, d \in 0..MaxDayField}
    \cup {Str(o) : o \in OtherDates}

(***************************************************************************)
(* The state of a specification's unused part.                             *)
(***************************************************************************)
RunIdle ==
    /\ prog = "" /\ pc = "idle" /\ has_url = FALSE /\ disk = {} /\ meta = None
    /\ fields = None /\ srt_files = <<>> /\ transcript = None /\ fabric = None
    /\ md_file = None /\ txt_file = None /\ error = ""
SrtIdle == srt = <<>> /\ flattened = <<>> /\ line_preserved = <<>> /\ reflattened = <<>>
DateIdle == yt_date = None /\ iso_date = None
SlugIdle == text = <<>> /\ slug = <<>>

(***************************************************************************)
(* SpecSrt: the two caption filters applied to one caption file.           *)
(***************************************************************************)
InitSrt ==
    /\ RunIdle /\ DateIdle /\ SlugIdle
    /\ stage = {}
    /\ srt \in CaptionInputs
    /\ flattened = <<>> /\ line_preserved = <<>> /\ reflattened = <<>>

CleanSrtToText ==
    /\ "clean_srt_to_text" \notin stage
    /\ flattened' = clean_srt_to_text(srt)
    /\ stage' = stage \cup {"clean_srt_to_text"}
    /\ UNCHANGED <<srt, line_preserved, reflattened, runVars, dateVars, slugVars>>

SrtToText ==
    /\ "srt_to_text" \notin stage
    /\ line_preserved' = srt_to_text(srt)
    /\ stage' = stage \cup {"srt_to_text"}
    /\ UNCHANGED <<srt, flattened, reflattened, runVars, dateVars, slugVars>>

\* the flattened transcript written to a caption file and flattened again
Reflatten ==
    /\ "clean_srt_to_text" \in stage
    /\ "reflatten" \notin stage
    /\ reflattened' = clean_srt_to_text(flattened)
    /\ stage' = stage \cup {"reflatten"}
    /\ UNCHANGED <<srt, flattened, line_preserved, runVars, dateVars, slugVars>>

NextSrt == CleanSrtToText \/ SrtToText \/ Reflatten
SpecSrt == InitSrt /\ [][NextSrt]_vars

(***************************************************************************)
(* SpecDate: normalize_date applied to one metadata date.                  *)
(***************************************************************************)
InitDate ==
    /\ RunIdle /\ SrtIdle /\ SlugIdle
    /\ stage = {}
    /\ yt_date \in DateInputs
    /\ iso_date = None

NormalizeDate ==
    /\ "normalize_date" \notin stage
    /\ iso_date' = normalize_date(yt_date)
    /\ stage' = stage \cup {"normalize_date"}
    /\ UNCHANGED <<yt_date, runVars, srtVars, slugVars>>

NextDate == NormalizeDate
SpecDate == InitDate /\ [][NextDate]_vars

(***************************************************************************)
(* SpecSlug: slugify applied to one text.                                  *)
(***************************************************************************)
InitSlug ==
    /\ RunIdle /\ SrtIdle /\ DateIdle
    /\ stage = {}
    /\ text \in SlugInputs
    /\ slug = <<>>

Slugify ==
    /\ "slugify" \notin stage
    /\ slug' = slugify(text)
    /\ stage' = stage \cup {"slugify"}
    /\ UNCHANGED <<text, runVars, srtVars, dateVars>>

NextSlug == Slugify
SpecSlug == InitSlug /\ [][NextSlug]_vars

(***************************************************************************)
(* Properties of the caption filters (SpecSrt).                            *)
(***************************************************************************)
\* needle occurs in hay
Contains(hay, needle) ==
    \E i \in 1..(Len(hay) + 1) :
        /\ i + Len(needle) - 1 <= Len(hay)
        /\ SubSeq(hay, i, i + Len(needle) - 1) = needle

RECURSIVE FilteredSequence(_)
\* the filtered line sequence as the specification states it: blank, digit-only
\* and timestamp-led lines discarded, markup stripped from the lines kept
FilteredSequence(lines) ==
    IF lines = <<>> THEN <<>>
    ELSE LET t == Strip(Head(lines))
         IN  IF t = <<>> \/ CueNumberMatch(t) \/ TimestampAt(t, 1)
             THEN FilteredSequence(Tail(lines))
             ELSE <<HtmlTagSub(t)>> \o FilteredSequence(Tail(lines))

BothApplied == {"clean_srt_to_text", "srt_to_text"} \subseteq stage

\* C1: the line-preserved transcript is the filtered line sequence joined with
\* newlines, and the flattened transcript is the same sequence joined with single
\* spaces, whitespace-collapsed and trimmed.
C1_SameFilteredSequence ==
    BothApplied =>
        LET kept == FilteredSequence(SplitLines(srt))
        IN  /\ line_preserved = Join(kept, <<"\n">>)
            /\ flattened = Strip(CollapseWs(Join(kept, <<" ">>)))

\* C10: a non-empty, non-digit-only line in which the timestamp pattern occurs
\* only after other text is kept: its text appears in the flattened transcript
\* and in the line-preserved transcript.
C10_TimestampOnlyAtLineStart ==
    BothApplied =>
        \A i \in DOMAIN SplitLines(srt) :
            LET t == Strip(SplitLines(srt)[i])
            IN  (t # <<>> /\ ~CueNumberMatch(t) /\ ~TimestampAt(t, 1) /\ TimestampSearch(t))
                => /\ Contains(flattened, Strip(CollapseWs(HtmlTagSub(t))))
                   /\ Contains(line_preserved, t)

\* C6 as stated: flattening the flattened transcript again yields the same text.
C6_FlattenIdempotent == "reflatten" \in stage => reflattened = flattened

\* the text is one that the line filter passes unchanged: not digit-only, no
\* timestamp pattern, no angle-bracket tag
PassesFilterUnchanged(s) ==
    /\ ~CueNumberMatch(s)
    /\ ~TimestampSearch(s)
    /\ HtmlTagSub(s) = s

\* C6 amended: flattening the flattened transcript again yields the same text
\* whenever the flattened transcript is not digit-only and contains neither a
\* timestamp pattern nor an angle-bracket tag.
C6_FlattenIdempotentOnPlainText ==
    ("reflatten" \in stage /\ PassesFilterUnchanged(flattened)) => reflattened = flattened

\* C6 witness: a caption file with markup and line breaks has been flattened to
\* plain text and flattened again
C6_Witness ==
    /\ "reflatten" \in stage
    /\ srt = <<"<", "b", ">", "\n", "a">>
    /\ flattened = <<"a">>
    /\ PassesFilterUnchanged(flattened)
    /\ reflattened = flattened

(***************************************************************************)
(* Properties of normalize_date (SpecDate).                                *)
(***************************************************************************)
\* y-m-d is a date of the calendar
ValidCalendarDate(y, m, d) ==
    /\ y >= 1
    /\ m \in 1..12
    /\ d >= 1
    /\ d <= CASE m \in {1, 3, 5, 7, 8, 10, 12} -> 31
              [] m \in {4, 6, 9, 11} -> 30
              [] OTHER -> IF y % 400 = 0 \/ (y % 4 = 0 /\ y % 100 # 0) THEN 29 ELSE 28

\* the result the specification states for normalize_date
ExpectedDate(d) ==
    IF d = None \/ d.val = <<>> THEN None
    ELSE IF Len(d.val) = 8 /\ \A i \in 1..8 : d.val[i] \in Digits
         THEN IF ValidCalendarDate(IntOf(SubSeq(d.val, 1, 4)), IntOf(SubSeq(d.val, 5, 6)),
                                   IntOf(SubSeq(d.val, 7, 8)))
              THEN Str(SubSeq(d.val, 1, 4) \o <<"-">> \o SubSeq(d.val, 5, 6)
                       \o <<"-">> \o SubSeq(d.val, 7, 8))
              ELSE None
    ELSE d

\* C7: normalize_date returns absent for an absent or empty input, YYYY-MM-DD for
\* eight digits that form a valid calendar date, absent for eight digits that do
\* not, and the input itself for every other text.
C7_NormalizeDate == "normalize_date" \in stage => iso_date = ExpectedDate(yt_date)

\* C7 witness: eight digits with an invalid month have been normalised to absent
C7_Witness ==
    /\ "normalize_date" \in stage
    /\ yt_date = Str(<<"2", "0", "2", "4", "1", "3", "0", "1">>)
    /\ iso_date = None

(***************************************************************************)
(* Properties of slugify (SpecSlug).                                       *)
(***************************************************************************)
\* no word character other than underscore occurs in t
NoWordSurvives(t) == \A i \in 1..Len(t) : ~(IsWord(t[i]) /\ t[i] # "_")

\* lowercase word characters grouped by single hyphens
WellFormedSlug(s) ==
    /\ s # <<>>
    /\ \A i \in 1..Len(s) :
           \/ s[i] = "-"
           \/ IsWord(s[i]) /\ s[i] # "_" /\ s[i] \notin Range(UpperCase) /\ ~IsSpace(s[i])
    /\ s[1] # "-" /\ s[Len(s)] # "-"
    /\ \A i \in 1..(Len(s) - 1) : ~(s[i] = "-" /\ s[i + 1] = "-")

\* C8: slugify's result is the literal "video" when no word character other than
\* underscore survives the cleaning, and otherwise a non-empty text of lowercase
\* word characters grouped by single hyphens, with no underscore, no whitespace,
\* no two adjacent hyphens and no leading or trailing hyphen.
C8_SlugShape ==
    "slugify" \in stage =>
        IF NoWordSurvives(text) THEN slug = Video ELSE WellFormedSlug(slug)

\* C8 witness: a text with capitals, separators and punctuation has been slugified
C8_Witness ==
    /\ "slugify" \in stage
    /\ text = <<"A", "_", " ", "b">>
    /\ slug = <<"a", "-", "b">>

(***************************************************************************)
(* The provider, the disk and the summarizer: what a run can meet.         *)
(***************************************************************************)
List(l) == [tag |-> "list", val |-> l]
Num(n) == [tag |-> "int", val |-> n]

Url == <<"u">>
TagTexts == {<<"a">>, <<"b", "\"">>}
TagLists == UNION {[1..n -> TagTexts] : n \in 0..MaxTags}
\* the optional fields of the metadata besides title, id, tags and upload_date
MetaExtras ==
    {[uploader |-> None, channel |-> None, duration |-> None, description |-> None,
      webpage_url |-> None, language |-> None],
     [uploader |-> None, channel |-> Str(<<"C", "h">>), duration |-> Num(0),
      description |-> Str(<<>>), webpage_url |-> None, language |-> Str(<<>>)],
     [uploader |-> Str(<<"U", "p">>), channel |-> Str(<<"C", "h">>), duration |-> Num(75),
      description |-> Str(<<" ", "d", "1", "\n", "d", "2">>), webpage_url |-> Str(<<"w">>), language |-> Str(<<"f", "r">>)]}
\* the metadata records the provider may return
Metas ==
    {[title |-> t, id |-> i, tags |-> g, upload_date |-> d,
      uploader |-> x.uploader, channel |-> x.channel, duration |-> x.duration,
      description |-> x.description, webpage_url |-> x.webpage_url, language |-> x.language] :
        t \in {None, Str(<<>>), Str(<<"M", "y", " ", "T", "!">>)},
        i \in {None, Str(<<"v", "1">>)},
        g \in {None, Str(<<"a">>)} \cup {List(l) : l \in TagLists},
        d \in {None, Str(<<"2", "0", "2", "4", "0", "1", "1", "5">>)},
        x \in MetaExtras}

\* caption files left on disk by earlier runs
StaleNames == {<<"z", ".", "e", "n", ".", "s", "r", "t">>, <<"v", "1", ".", "f", "r", ".", "s", "r", "t">>}
StaleCaption == <<"1", "\n", "0", "0", ":", "0", "0", ":", "0", "1", ",", "0", "0", "0", " ", "-", "-", ">", " ", "0", "0", ":", "0", "0", ":", "0", "2", ",", "0", "0", "0", "\n", "o", "l", "d", "\n">>
FreshCaption == <<"1", "\n", "0", "0", ":", "0", "0", ":", "0", "1", ",", "0", "0", "0", " ", "-", "-", ">", " ", "0", "0", ":", "0", "0", ":", "0", "2", ",", "0", "0", "0", "\n", "<", "i", ">", "n", "e", "w", "<", "/", "i", ">", " ", "1", "\n">>
StaleDisks ==
    {{f \in {[name |-> n, mtime |-> c[n], content |-> StaleCaption] : n \in StaleNames} : f.mtime > 0} :
        c \in [StaleNames -> 0..MaxMtime]}
\* the provider writes no caption file (none available) or <base>.en.srt
ProviderWrites(base) ==
    {{}} \cup {{[name |-> base \o <<".", "e", "n", ".", "s", "r", "t">>, mtime |-> t, content |-> FreshCaption]} :
                 t \in 1..MaxMtime}
\* the disk after the files of `written` are created or replaced
Overwrite(files, written) ==
    {f \in files : \A w \in written : w.name # f.name} \cup written

\* how a subprocess ends: exit status 0, a non-zero exit status, or it cannot be run
RunOutcomes == {"ok", "nonzero", "oserror"}
\* what the summarizer prints
FabricOutputs == {<<"#", " ", "W", "\n">>, <<>>}
\* the local calendar date of the run
CreatedDate == <<"2", "0", "2", "6", "-", "1", "1", "-", "0", "4">>

StartsWith(s, p) == Len(s) >= Len(p) /\ SubSeq(s, 1, Len(p)) = p
EndsWith(s, p) == Len(s) >= Len(p) /\ SubSeq(s, Len(s) - Len(p) + 1, Len(s)) = p
\* every order in which a directory scan may list the files
Orderings(S) == {o \in [1..Cardinality(S) -> S] : \A i, j \in DOMAIN o : i # j => o[i] # o[j]}

(***************************************************************************)
(* yt_to_wisdom_md.run                                                     *)
(***************************************************************************)
run_raises_unchecked(outcome) == outcome = "oserror"

\* subprocess.run(..., check=True) raises
run_raises(outcome) == outcome # "ok"

\* the exception subprocess.run raises
run_exception(outcome) == IF outcome = "nonzero" THEN "CalledProcessError" ELSE "OSError"

\* result.stdout.strip()
run_stdout(stdout) == Strip(stdout)

(***************************************************************************)
(* yt_to_wisdom_md.main                                                    *)
(***************************************************************************)
\* x or default
Or(x, default) == IF Falsy(x) THEN default ELSE x

Untitled == <<"U", "n", "t", "i", "t", "l", "e", "d">>
Unknown == <<"U", "n", "k", "n", "o", "w", "n">>

\* the assignments of main's locals from the metadata
ResolveFields(m) ==
    LET title == Or(m.title, Str(Untitled)).val
    IN  [title |-> title,
         uploader |-> Or(m.uploader, Or(m.channel, Str(Unknown))).val,
         source_date |-> normalize_date(m.upload_date),
         duration |-> m.duration,
         tags |-> Or(m.tags, List(<<>>)),
         description |-> Or(m.description, Str(<<>>)).val,
         webpage_url |-> Or(m.webpage_url, Str(Url)).val,
         language |-> Or(m.language, Str(<<"e", "n">>)).val,
         video_id |-> Or(m.id, Str(slugify(title))).val,
         created_date |-> CreatedDate]

\* out_dir.glob(f"{video_id}*.srt")
GlobMain(files, video_id) ==
    {f \in files : /\ StartsWith(f.name, video_id)
                   /\ EndsWith(f.name, <<".", "s", "r", "t">>)
                   /\ Len(f.name) >= Len(video_id) + 4}

select_transcript_always_auto(files) ==
    IF files = <<>>
    THEN [source |-> None, text |-> <<>>, quality |-> <<"a", "u", "t", "o">>]
    ELSE [source |-> files[1], text |-> srt_to_text(files[1].content), quality |-> <<"a", "u", "t", "o">>]

\* transcript_text and transcript_quality from the list glob returned
select_transcript(files) ==
    IF files = <<>>
    THEN [source |-> None, text |-> <<>>, quality |-> <<"n", "o", "n", "e">>]
    ELSE [source |-> files[1], text |-> srt_to_text(files[1].content), quality |-> <<"a", "u", "t", "o">>]

\* f"INPUT:\n\n{title}\n\n{transcript_text}"
fabric_input(title, transcript_text) ==
    <<"I", "N", "P", "U", "T", ":", "\n", "\n">> \o title \o <<"\n", "\n">> \o transcript_text

RECURSIVE DecimalText(_)
\* str(n) for n >= 0
DecimalText(n) ==
    IF n < 10 THEN <<DigitSeq[n + 1]>> ELSE DecimalText(n \div 10) \o <<DigitSeq[(n % 10) + 1]>>

DescriptionLimit == 280
\* description.strip().split("\n")[0][:280]
short_desc(description) ==
    LET stripped == Strip(description)
        first == IF \E i \in 1..Len(stripped) : stripped[i] = "\n"
                 THEN SubSeq(stripped, 1,
                             (CHOOSE i \in 1..Len(stripped) :
                                  stripped[i] = "\n" /\ \A k \in 1..(i - 1) : stripped[k] # "\n") - 1)
                 ELSE stripped
    IN  SubSeq(first, 1, IF Len(first) < DescriptionLimit THEN Len(first) ELSE DescriptionLimit)

topics_lines_no_default(tags) ==
    [i \in 1..(IF tags.tag = "list" THEN Len(tags.val) ELSE 0) |-> <<" ", " ", "-", " ">> \o yaml_str(tags.val[i])]

\* the entries under "topics:"
topics_lines(tags) ==
    IF tags.tag = "list" /\ tags.val # <<>>
    THEN [i \in 1..Len(tags.val) |-> <<" ", " ", "-", " ">> \o yaml_str(tags.val[i])]
    ELSE <<<<" ", " ", "-", " ", "\"", "y", "o", "u", "t", "u", "b", "e", "\"">>>>

\* md_lines: the lines of the note
md_lines(f, transcript_quality, body_md) ==
    <<<<"-", "-", "-">>,
      <<"t", "i", "t", "l", "e", ":", " ">> \o yaml_str(f.title),
      <<"s", "o", "u", "r", "c", "e", "_", "t", "y", "p", "e", ":", " ">> \o yaml_str(<<"y", "o", "u", "t", "u", "b", "e", "_", "p", "o", "d", "c", "a", "s", "t">>),
      <<"o", "r", "i", "g", "i", "n", "a", "l", "_", "u", "r", "l", ":", " ">> \o yaml_str(f.webpage_url),
      <<"c", "r", "e", "a", "t", "e", "d", ":", " ">> \o yaml_str(f.created_date),
      <<"s", "o", "u", "r", "c", "e", "_", "d", "a", "t", "e", ":", " ">> \o (IF f.source_date # None /\ f.source_date.val # <<>>
                             THEN yaml_str(f.source_date.val) ELSE <<"n", "u", "l", "l">>),
      <<"d", "u", "r", "a", "t", "i", "o", "n", "_", "s", "e", "c", "o", "n", "d", "s", ":", " ">> \o (IF f.duration # None THEN DecimalText(f.duration.val) ELSE <<"n", "u", "l", "l">>),
      <<"l", "a", "n", "g", "u", "a", "g", "e", ":", " ">> \o yaml_str(f.language),
      <<"u", "p", "l", "o", "a", "d", "e", "r", ":", " ">> \o yaml_str(f.uploader),
      <<"p", "e", "o", "p", "l", "e", ":", " ", "[", "]">>,
      <<"t", "o", "p", "i", "c", "s", ":">>>>
    \o topics_lines(f.tags)
    \o <<<<"t", "a", "g", "s", ":">>,
         <<" ", " ", "-", " ", "\"", "Y", "o", "u", "T", "u", "b", "e", "\"">>,
         <<"d", "e", "s", "c", "r", "i", "p", "t", "i", "o", "n", ":", " ">> \o yaml_str(short_desc(f.description)),
         <<"t", "r", "a", "n", "s", "c", "r", "i", "p", "t", "_", "s", "o", "u", "r", "c", "e", ":", " ">> \o yaml_str(<<"y", "t", "-", "d", "l", "p">>),
         <<"t", "r", "a", "n", "s", "c", "r", "i", "p", "t", "_", "q", "u", "a", "l", "i", "t", "y", ":", " ">> \o yaml_str(transcript_quality),
         <<"-", "-", "-">>,
         <<>>,
         body_md>>

\* out_dir / f"{created_date}--{slug}.md"
md_path(f) == f.created_date \o <<"-", "-">> \o slugify(f.title) \o <<".", "m", "d">>

Main == "yt_to_wisdom_md"
Fetcher == "transcript_fetcher"

\* an exception leaves the function: the run ends
Raise(exc) == pc' = "failed" /\ error' = exc

\* both scripts: the usage message and exit status 1 without the URL argument
Usage ==
    /\ pc = "start" /\ ~has_url
    /\ pc' = "exit_usage" /\ error' = "SystemExit"
    /\ UNCHANGED <<prog, has_url, disk, meta, fields, srt_files, transcript, fabric,
                   md_file, txt_file, stage, srtVars, dateVars, slugVars>>

\* run(["yt-dlp", "-J", url]), json.loads and the locals resolved from the metadata
MainFetchMetadata ==
    /\ prog = Main /\ pc = "start" /\ has_url
    /\ \E outcome \in RunOutcomes :
        IF run_raises(outcome)
        THEN Raise(run_exception(outcome)) /\ UNCHANGED <<meta, fields>>
        ELSE \E doc \in (IF outcome = "ok" THEN Metas ELSE {None}) :
                IF doc = None
                THEN Raise("JSONDecodeError") /\ UNCHANGED <<meta, fields>>
                ELSE /\ meta' = doc
                     /\ fields' = ResolveFields(doc)
                     /\ pc' = "download_subs"
                     /\ error' = error
    /\ UNCHANGED <<prog, has_url, disk, srt_files, transcript, fabric, md_file, txt_file,
                   stage, srtVars, dateVars, slugVars>>

\* run(["yt-dlp", url, "--skip-download", "--write-auto-subs", ...])
MainDownloadSubs ==
    /\ prog = Main /\ pc = "download_subs"
    /\ \E outcome \in RunOutcomes :
        IF run_raises(outcome)
        THEN Raise(run_exception(outcome)) /\ UNCHANGED disk
        ELSE \E written \in (IF outcome = "ok" THEN ProviderWrites(fields.video_id) ELSE {{}}) :
                /\ disk' = Overwrite(disk, written)
                /\ pc' = "select_transcript"
                /\ error' = error
    /\ UNCHANGED <<prog, has_url, meta, fields, srt_files, transcript, fabric, md_file,
                   txt_file, stage, srtVars, dateVars, slugVars>>

\* the glob and the choice of the caption file
MainSelectTranscript ==
    /\ prog = Main /\ pc = "select_transcript"
    /\ srt_files' \in Orderings(GlobMain(disk, fields.video_id))
    /\ transcript' = select_transcript(srt_files')
    /\ pc' = "call_fabric"
    /\ UNCHANGED <<prog, has_url, disk, meta, fields, fabric, md_file, txt_file, error,
                   stage, srtVars, dateVars, slugVars>>

\* run(["fabric", "--pattern", "extract_article_wisdom"], input_text=fabric_input)
MainCallFabric ==
    /\ prog = Main /\ pc = "call_fabric"
    /\ \E outcome \in RunOutcomes, stdout \in FabricOutputs :
        /\ fabric' = [calls |-> fabric.calls + 1,
                      outcome |-> outcome,
                      input |-> fabric_input(fields.title, transcript.text),
                      body |-> IF run_raises(outcome) THEN <<>> ELSE run_stdout(stdout)]
        /\ IF run_raises(outcome)
           THEN Raise(run_exception(outcome))
           ELSE pc' = "write_note" /\ error' = error
    /\ UNCHANGED <<prog, has_url, disk, meta, fields, srt_files, transcript, md_file,
                   txt_file, stage, srtVars, dateVars, slugVars>>

\* the front matter is built and md_path.write_text("\n".join(md_lines)) writes the note
MainWriteNote ==
    /\ prog = Main /\ pc = "write_note"
    /\ md_file' = [path |-> md_path(fields),
                   text |-> Join(md_lines(fields, transcript.quality, fabric.body), <<"\n">>)]
    /\ pc' = "done"
    /\ UNCHANGED <<prog, has_url, disk, meta, fields, srt_files, transcript, fabric,
                   txt_file, error, stage, srtVars, dateVars, slugVars>>

(***************************************************************************)
(* transcript_fetcher.download_and_process                                 *)
(***************************************************************************)
MissingTitleOnlyNone(title) == title = None

\* `if not title`
MissingTitle(title) == Falsy(title)

\* re.sub(r"[^\w\-. ]", "_", title).strip()
safe_title(title) ==
    Strip([i \in 1..Len(title) |->
              IF IsWord(title[i]) \/ title[i] \in {"-", ".", " "} THEN title[i] ELSE "_"])

\* Path(".").glob("*.en.srt")
GlobFetcher(files) == {f \in files : EndsWith(f.name, <<".", "e", "n", ".", "s", "r", "t">>)}

RECURSIVE max_mtime(_)
\* max(srt_files, key=lambda p: p.stat().st_mtime): the first of the largest
max_mtime(files) ==
    IF Len(files) = 1 THEN files[1]
    ELSE LET rest == max_mtime(Tail(files))
         IN  IF rest.mtime > files[1].mtime THEN rest ELSE files[1]

\* ydl.extract_info(url, download=True): the provider writes the caption file it
\* finds, named from the title, and returns the metadata
FetcherExtractInfo ==
    /\ prog = Fetcher /\ pc = "start" /\ has_url
    /\ \E outcome \in {"ok", "error"} :
        IF outcome = "error"
        THEN Raise("DownloadError") /\ UNCHANGED <<meta, disk>>
        ELSE \E info \in Metas :
                \E written \in ProviderWrites(IF info.title = None THEN <<"N", "A">> ELSE info.title.val) :
                    /\ meta' = info
                    /\ disk' = Overwrite(disk, written)
                    /\ pc' = "check_title"
                    /\ error' = error
    /\ UNCHANGED <<prog, has_url, fields, srt_files, transcript, fabric, md_file, txt_file,
                   stage, srtVars, dateVars, slugVars>>

\* the title check and the sanitised title
FetcherCheckTitle ==
    /\ prog = Fetcher /\ pc = "check_title"
    /\ IF MissingTitle(meta.title)
       THEN Raise("RuntimeError") /\ UNCHANGED fields
       ELSE /\ fields' = [title |-> meta.title.val, safe_title |-> safe_title(meta.title.val)]
            /\ pc' = "select_srt"
            /\ error' = error
    /\ UNCHANGED <<prog, has_url, disk, meta, srt_files, transcript, fabric, md_file,
                   txt_file, stage, srtVars, dateVars, slugVars>>

\* the glob, the choice of the caption file and its conversion
FetcherSelectSrt ==
    /\ prog = Fetcher /\ pc = "select_srt"
    /\ srt_files' \in Orderings(GlobFetcher(disk))
    /\ IF srt_files' = <<>>
       THEN Raise("FileNotFoundError") /\ UNCHANGED transcript
       ELSE /\ transcript' = [source |-> max_mtime(srt_files'),
                              text |-> clean_srt_to_text(max_mtime(srt_files').content),
                              quality |-> <<>>]
            /\ pc' = "write_text"
            /\ error' = error
    /\ UNCHANGED <<prog, has_url, disk, meta, fields, fabric, md_file, txt_file,
                   stage, srtVars, dateVars, slugVars>>

\* txt_path.write_text(cleaned_text)
FetcherWriteText ==
    /\ prog = Fetcher /\ pc = "write_text"
    /\ txt_file' = [path |-> fields.safe_title \o <<".", "t", "x", "t">>, text |-> transcript.text]
    /\ pc' = "done"
    /\ UNCHANGED <<prog, has_url, disk, meta, fields, srt_files, transcript, fabric,
                   md_file, error, stage, srtVars, dateVars, slugVars>>

(***************************************************************************)
(* Spec: one run of either script.                                         *)
(***************************************************************************)
Init ==
    /\ SrtIdle /\ DateIdle /\ SlugIdle /\ stage = {}
    /\ prog \in {Main, Fetcher}
    /\ pc = "start"
    /\ has_url \in BOOLEAN
    /\ disk \in StaleDisks
    /\ meta = None
    /\ fields = None
    /\ srt_files = <<>>
    /\ transcript = None
    /\ fabric = [calls |-> 0, outcome |-> "", input |-> <<>>, body |-> <<>>]
    /\ md_file = None
    /\ txt_file = None
    /\ error = ""

Next ==
    \/ Usage
    \/ MainFetchMetadata
    \/ MainDownloadSubs
    \/ MainSelectTranscript
    \/ MainCallFabric
    \/ MainWriteNote
    \/ FetcherExtractInfo
    \/ FetcherCheckTitle
    \/ FetcherSelectSrt
    \/ FetcherWriteText

Spec == Init /\ [][Next]_vars

(***************************************************************************)
(* Properties of the runs (Spec).                                          *)
(***************************************************************************)
\* the caption files that match the run's naming pattern
Matching == IF prog = Main THEN GlobMain(disk, fields.video_id) ELSE GlobFetcher(disk)

\* the lines of the note's topics block: those between "topics:" and "tags:"
TopicsBlock(lines) ==
    LET i == CHOOSE i \in 1..Len(lines) :
                 lines[i] = <<"t", "o", "p", "i", "c", "s", ":">> /\ \A k \in 1..(i - 1) : lines[k] # <<"t", "o", "p", "i", "c", "s", ":">>
        j == CHOOSE j \in (i + 1)..Len(lines) :
                 lines[j] = <<"t", "a", "g", "s", ":">> /\ \A k \in (i + 1)..(j - 1) : lines[k] # <<"t", "a", "g", "s", ":">>
    IN  SubSeq(lines, i + 1, j - 1)

RECURSIVE JsonUnescape(_)
\* the text a JSON string body denotes, if it is one
JsonUnescape(s) ==
    IF s = <<>> THEN [ok |-> TRUE, val |-> <<>>]
    ELSE IF Head(s) = "\"" THEN [ok |-> FALSE, val |-> <<>>]
    ELSE IF Head(s) = "\\"
         THEN IF Len(s) < 2 \/ s[2] \notin {"\"", "\\", "n", "r", "t", "f"}
              THEN [ok |-> FALSE, val |-> <<>>]
              ELSE LET rest == JsonUnescape(Tail(Tail(s)))
                       c == CASE s[2] = "n" -> "\n" [] s[2] = "r" -> "\r" [] s[2] = "t" -> "\t"
                              [] s[2] = "f" -> "\f" [] OTHER -> s[2]
                   IN  [ok |-> rest.ok, val |-> IF rest.ok THEN <<c>> \o rest.val ELSE <<>>]
    ELSE LET rest == JsonUnescape(Tail(s))
         IN  [ok |-> rest.ok, val |-> IF rest.ok THEN <<Head(s)>> \o rest.val ELSE <<>>]

\* q is a quoted JSON string that denotes the text v
QuotedStringOf(q, v) ==
    /\ Len(q) >= 2 /\ q[1] = "\"" /\ q[Len(q)] = "\""
    /\ JsonUnescape(SubSeq(q, 2, Len(q) - 1)) = [ok |-> TRUE, val |-> v]

\* C2: the note is written only after the summarizer has returned successfully,
\* and then whole; a failed summarizer invocation ends the run with no note.
C2_NoteOnlyAfterSummarizer ==
    /\ md_file # None =>
           /\ fabric.calls = 1 /\ fabric.outcome = "ok" /\ error = ""
           /\ StartsWith(md_file.text, <<"-", "-", "-", "\n", "t", "i", "t", "l", "e", ":", " ">>)
           /\ EndsWith(md_file.text, <<"\n", "-", "-", "-", "\n", "\n">> \o fabric.body)
    /\ (prog = Main /\ fabric.outcome \in {"nonzero", "oserror"}) =>
           pc = "failed" /\ error # "" /\ md_file = None

\* C2 witness: the summarizer has exited with a non-zero status
C2_Witness ==
    /\ prog = Main /\ fabric.calls = 1 /\ fabric.outcome = "nonzero"
    /\ pc = "failed" /\ md_file = None

\* C3: without a caption file the run goes on: the summarizer is invoked once with
\* an empty transcript body, the note is written and records transcript_quality
\* "none"; transcript_quality is "auto" exactly when a caption file was found.
C3_NoCaptionDegrades ==
    prog = Main =>
        /\ transcript # None =>
               /\ transcript.quality = <<"a", "u", "t", "o">> <=> Matching # {}
               /\ Matching = {} =>
                      /\ transcript.quality = <<"n", "o", "n", "e">> /\ transcript.text = <<>>
                      /\ fabric.calls = 0 => (pc = "call_fabric" /\ error = "")
                      /\ fabric.calls > 0 =>
                             /\ fabric.calls = 1
                             /\ fabric.input = <<"I", "N", "P", "U", "T", ":", "\n", "\n">> \o fields.title \o <<"\n", "\n">>
        /\ pc = "done" => md_file # None
        /\ md_file # None =>
               LET quality == (IF Matching = {} THEN <<"t", "r", "a", "n", "s", "c", "r", "i", "p", "t", "_", "q", "u", "a", "l", "i", "t", "y", ":", " ", "\"", "n", "o", "n", "e", "\"">>
                        ELSE <<"t", "r", "a", "n", "s", "c", "r", "i", "p", "t", "_", "q", "u", "a", "l", "i", "t", "y", ":", " ", "\"", "a", "u", "t", "o", "\"">>)
               IN  quality \in Range(SplitLines(md_file.text))

\* C3 witness: a note has been written in a run that found no caption file
C3_Witness ==
    /\ prog = Main /\ pc = "done" /\ Matching = {}
    /\ fabric.calls = 1 /\ md_file # None

\* C4: when more than one caption file matches the naming pattern, the transcript
\* is derived from the most recently modified of them, in both runs.
C4_MostRecentCaptionFile ==
    (transcript # None /\ Cardinality(Matching) > 1) =>
        \A f \in Matching : f.mtime <= transcript.source.mtime

\* C5 as stated: with no usable title, neither run writes a file.
C5_MissingTitleIsFatal ==
    (meta # None /\ Falsy(meta.title)) => (md_file = None /\ txt_file = None)

\* C5 amended: with no usable title the pure-transcript run raises before its
\* text file is written, and the note-assembly run goes on with the title
\* "Untitled", under which it writes its note.
C5_MissingTitleFatalInFetcherOnly ==
    (meta # None /\ Falsy(meta.title)) =>
        /\ prog = Fetcher =>
               /\ txt_file = None /\ md_file = None
               /\ pc \in {"check_title", "failed"}
               /\ pc = "failed" => error = "RuntimeError"
        /\ prog = Main =>
               /\ fields.title = Untitled
               /\ pc = "done" =>
                      /\ md_file # None
                      /\ md_file.path = CreatedDate \o <<"-", "-", "u", "n", "t", "i", "t", "l", "e", "d", ".", "m", "d">>
                      /\ SplitLines(md_file.text)[2] = <<"t", "i", "t", "l", "e", ":", " ", "\"", "U", "n", "t", "i", "t", "l", "e", "d", "\"">>

\* C5 witness: the pure-transcript run has been ended by an empty title
C5_Witness ==
    /\ prog = Fetcher /\ meta # None /\ meta.title = Str(<<>>)
    /\ pc = "failed" /\ error = "RuntimeError" /\ txt_file = None

\* C9: the note's topics block has one entry per element of the metadata's tag
\* list, in order and with the same values, when that list is non-empty, and
\* exactly one default entry when the metadata has no tags or an empty tag list.
C9_TopicsFromTags ==
    md_file # None =>
        LET block == TopicsBlock(SplitLines(md_file.text))
        IN  IF meta.tags.tag = "list" /\ meta.tags.val # <<>>
            THEN /\ Len(block) = Len(meta.tags.val)
                 /\ \A i \in 1..Len(block) :
                        /\ StartsWith(block[i], <<" ", " ", "-", " ">>)
                        /\ QuotedStringOf(SubSeq(block[i], 5, Len(block[i])), meta.tags.val[i])
            ELSE (meta.tags = None \/ meta.tags = List(<<>>)) => block = <<<<" ", " ", "-", " ", "\"", "y", "o", "u", "t", "u", "b", "e", "\"">>>>

\* C9 witness: a note has been written for metadata with two distinct tags
C9_Witness ==
    /\ md_file # None
    /\ meta.tags = List(<<<<"b", "\"">>, <<"a">>>>)
    /\ Len(TopicsBlock(SplitLines(md_file.text))) = 2

====
